---- MODULE Spec2Model ----
(***************************************************************************)
(* Model of binance_arbitrage_bot.py: the /start and /stop handlers, the   *)
(* arbitrage_loop thread, select_best_arbitrage_path / calculate_profit,   *)
(* execute_trade under the retry_on_error decorator.                       *)
(*                                                                         *)
(* Money is fixed point, in units of 1/USDT of one USDT; prices are fixed  *)
(* point in units of 1/PriceScale.  Every answer of the exchange and of    *)
(* the spreadsheet is an input drawn from a small set at the call.         *)
(* Time advances in ticks of one second; a call takes no time or any       *)
(* number of ticks, a time.sleep(d) takes at least d ticks.                *)
(***************************************************************************)
EXTENDS Integers, Sequences, FiniteSets, TLC

\* ------------------------------------------------------------ constants

USDT == 10000
PriceScale == 10000

TRADE_FEE_NUM == 75
TRADE_FEE_DEN == 100000
SLIPPAGE_TOLERANCE_NUM == 2
SLIPPAGE_TOLERANCE_DEN == 1000
MIN_PROFIT_THRESHOLD == 10
MIN_TRADE_AMOUNT == 10 * USDT
MAX_TRADE_AMOUNT == 1000 * USDT
INITIAL_BALANCE == 100 * USDT
RETRY_TIMES == 3
BNB_FEE_FLOOR == 1000
LOOP_SLEEP == 10
RISK_SLEEP == 60

TRADE_PATHS ==
    << <<"USDT", "BNB", "ETH", "USDT">>,
       <<"USDT", "BTC", "BNB", "USDT">>,
       <<"USDT", "BTC", "ETH", "USDT">> >>

NumPaths == Len(TRADE_PATHS)
NumLegs(path) == Len(path) - 1

\* Loop threads that may be alive at once.
MaxThreads == 3
Threads == 1..MaxThreads

\* ------------------------------------------------------ the environment

\* What one leg's three exchange reads return: is_pair_tradable, get_price
\* (price 0: None) and the best ask of get_order_book (ask 0: the call raised).
Quote(t, p, a) == [tradable |-> t, price |-> p, ask |-> a]

\* What gsheet.get_all_values() gives get_latest_balance: the last row's
\* balance, or no usable row (an empty sheet, an empty cell, an exception).
Read(o, v) == [ok |-> o, value |-> v]

\* What client.order_market_buy does: returns an order with its executedQty,
\* or raises (a network failure, or the exchange rejecting the order).
Order(r, q) == [result |-> r, qty |-> q]

\* The answers the environment may give, by the place that asks:
\*   eval_quotes, eval_sheet: calculate_profit's legs and its balance read
\*   trade_sheet, trade_quotes: execute_trade's balance read and its legs
\*   orders: client.order_market_buy;  pairs: is_pair_tradable("BNBUSDT")
\*   usdt, bnb: get_account_balance;  slots: the loop threads that may run
\*   handlers: the /start requests that may be served at once
\*   reachable: whether a call of client.get_asset_balance gets through
\*   appends, sends: whether gsheet.append_row and the Telegram post succeed
GoodQuote == Quote(TRUE, 10023, 10023)
AllQuotes ==
    {Quote(TRUE, 10000, 10000), GoodQuote,
     Quote(TRUE, 0, 10000), Quote(FALSE, 10000, 10000),
     Quote(TRUE, 10000, 10100), Quote(TRUE, 10000, 0)}
AllReads ==
    {Read(FALSE, 0), Read(TRUE, 5 * USDT),
     Read(TRUE, (25 * USDT) \div 2), Read(TRUE, 2000 * USDT)}
AllOrders ==
    {Order("filled", USDT), Order("filled", 0),
     Order("transient", 0), Order("rejected", 0)}

\* Every answer to the evaluation; execute_trade fails only on its amount.
LoopEnv ==
    [eval_quotes |-> AllQuotes, eval_sheet |-> AllReads,
     trade_sheet |-> {Read(FALSE, 0), Read(TRUE, 5 * USDT), Read(TRUE, 2000 * USDT)},
     trade_quotes |-> {GoodQuote},
     orders |-> {Order("filled", USDT)}, pairs |-> {TRUE},
     usdt |-> {5 * USDT, 100 * USDT}, bnb |-> {0, USDT}, slots |-> {1},
     handlers |-> 1, reachable |-> {TRUE}, appends |-> {TRUE}, sends |-> {TRUE}]

\* One profitable evaluation; every answer to execute_trade.
TradeEnv ==
    [eval_quotes |-> {GoodQuote}, eval_sheet |-> {Read(FALSE, 0)},
     trade_sheet |-> {Read(FALSE, 0), Read(TRUE, 5 * USDT)},
     trade_quotes |-> AllQuotes,
     orders |-> AllOrders, pairs |-> {TRUE, FALSE},
     usdt |-> {100 * USDT}, bnb |-> {0, USDT}, slots |-> {1},
     handlers |-> 1, reachable |-> {TRUE}, appends |-> {TRUE}, sends |-> {TRUE}]

\* An exchange that answers every call and fills every order; several
\* loop threads; the /start requests served one at a time.
CalmEnv ==
    [eval_quotes |-> {GoodQuote}, eval_sheet |-> {Read(FALSE, 0)},
     trade_sheet |-> {Read(FALSE, 0)},
     trade_quotes |-> {GoodQuote},
     orders |-> {Order("filled", USDT)}, pairs |-> {TRUE},
     usdt |-> {100 * USDT}, bnb |-> {0}, slots |-> Threads,
     handlers |-> 1, reachable |-> {TRUE}, appends |-> {TRUE}, sends |-> {TRUE}]

\* -------------------------------------------------------- pure functions

get_latest_balance(read) == IF read.ok THEN read.value ELSE INITIAL_BALANCE

\* amount * price on fixed-point prices, rounded down.
times_price(amount, price) ==
    (amount \div PriceScale) * price + ((amount % PriceScale) * price) \div PriceScale

\* amount * (1 - TRADE_FEE)
after_fee(amount) == amount - (amount * TRADE_FEE_NUM) \div TRADE_FEE_DEN

Abs(x) == IF x < 0 THEN 0 - x ELSE x

\* abs(best - price) / price > SLIPPAGE_TOLERANCE, for price > 0
slippage_exceeds(best, price) ==
    Abs(best - price) * SLIPPAGE_TOLERANCE_DEN > SLIPPAGE_TOLERANCE_NUM * price

\* 80% of the recorded balance
trade_fraction(balance) == (balance * 8) \div 10

Infeasible == [ok |-> FALSE, amount |-> 0]

\* A mutant of walk_legs: a missing price does not end the evaluation.
RECURSIVE walk_legs_ignoring_missing(_, _, _, _)
walk_legs_ignoring_missing(path, amount, legs, i) ==
    IF i > NumLegs(path) THEN [ok |-> TRUE, amount |-> amount]
    ELSE LET q == legs[i] IN
         IF q.price = 0 \/ ~q.tradable
           THEN walk_legs_ignoring_missing(path, after_fee(amount), legs, i + 1)
         ELSE IF q.ask = 0 THEN Infeasible
         ELSE IF slippage_exceeds(q.ask, q.price) THEN Infeasible
         ELSE walk_legs_ignoring_missing(
                  path, after_fee(times_price(amount, q.price)), legs, i + 1)

\* The leg loop of calculate_profit from leg i on: the final amount, or
\* Infeasible where the code returns 0 early (or raises into its except).
RECURSIVE walk_legs(_, _, _, _)
walk_legs(path, amount, legs, i) ==
    IF i > NumLegs(path) THEN [ok |-> TRUE, amount |-> amount]
    ELSE LET q == legs[i] IN
         IF ~q.tradable THEN Infeasible
         ELSE IF q.price = 0 THEN Infeasible
         ELSE IF q.ask = 0 THEN Infeasible
         ELSE IF slippage_exceeds(q.ask, q.price) THEN Infeasible
         ELSE walk_legs(path, after_fee(times_price(amount, q.price)), legs, i + 1)

calculate_profit(path, read, legs) ==
    LET amount == trade_fraction(get_latest_balance(read)) IN
    IF amount < MIN_TRADE_AMOUNT THEN 0
    ELSE LET initial_amount ==
                 IF amount > MAX_TRADE_AMOUNT THEN MAX_TRADE_AMOUNT ELSE amount
             r == walk_legs(path, initial_amount, legs, 1)
         IN  IF r.ok THEN r.amount - initial_amount ELSE 0

\* A mutant of better_path: an equal profit replaces the best so far.
better_path_or_equal(profit, best_profit) == profit >= best_profit

\* The comparison of select_best_arbitrage_path's loop.
better_path(profit, best_profit) == profit > best_profit

\* A mutant of profit_passes: any positive profit is traded.
profit_passes_any(best_profit) == best_profit > 0

\* arbitrage_loop's test for executing the selected path.
profit_passes(best_profit) == best_profit > MIN_PROFIT_THRESHOLD

\* arbitrage_loop's risk check on the USDT balance.
risk_denied(usdt_balance) == usdt_balance < MIN_TRADE_AMOUNT

Pow2(n) == IF n = 0 THEN 1 ELSE IF n = 1 THEN 2 ELSE IF n = 2 THEN 4 ELSE 8

\* A mutant of retry_on_error: the last attempt is not recognised.
retry_on_error_no_ceiling(attempt) ==
    [raise |-> attempt = RETRY_TIMES, sleep |-> Pow2(attempt)]

\* retry_on_error's handling of an exception raised by invocation number
\* attempt (from 0): re-raise, or sleep 2 ** attempt and invoke again.
retry_on_error(attempt) ==
    [raise |-> attempt = RETRY_TIMES - 1, sleep |-> Pow2(attempt)]

\* ------------------------------------------------------------------ state

VARIABLES
    arbitrage_is_running,   \* the module's global flag
    starting,               \* /start handlers past the flag test, reading the balance
    thread,                 \* the arbitrage_loop threads: position and locals
    orders_in_window,       \* order submissions since the last tick
    ids_this_second,        \* trade_id values formed since the last tick
    environ,                \* os.environ at import: each required variable's state
    response,               \* what the last /start or /stop request was answered
    exchange,               \* the exchange's ticker: its prices and their version
    price_monitor           \* the PriceMonitor start_bot created last

vars == <<arbitrage_is_running, starting, thread, orders_in_window,
          ids_this_second, environ, response, exchange, price_monitor>>

\* What no step of a loop thread changes.
outside == <<environ, response, exchange, price_monitor>>

NoOrders == [k \in 1..3 |-> 0]

\* A thread's record at position pc with the locals of no iteration.
\*   usdt_balance, best_path (0: None), best_profit: arbitrage_loop's locals
\*   profits, missing: the profits select_best_arbitrage_path has computed so
\*       far, and the paths among them a leg of which had no price or no pair
\*   attempt: retry_on_error's loop variable around execute_trade
\*   trade_amount, i, current_amount: execute_trade's locals (i from 1)
\*   error: the exception the current run of execute_trade raised
\*   logged: the status this run handed to log_to_google_sheets
\*   sleep_left: seconds left of the current time.sleep
\*   invocations, waits: the runs of execute_trade in this call, and the
\*       sleeps retry_on_error made between them
\*   orders: the order_market_buy calls of this call, per leg
\*   fail_leg, fail_kind, fail_logged: the first failure of this call
\*   unchecked: a leg order of this call was sent with no slippage check
\*   stopped_before: the flag was false when this call was entered
\*   leg, amount, initial_amount: calculate_profit's position in its leg
\*       loop (0: not in it) and its locals, where its legs are single steps
\*   seen: the versions of the exchange's prices this evaluation has read
\*   final_amount, actual_profit: execute_trade's locals after the legs
\*   fee_amount, first_amount: the quoteOrderQty of this run's BNB fee
\*       purchase and of its first leg's order (0: not submitted), kept
\*       until the run has ended
\*   notified: the outcome this run handed to logging (the Telegram handler)
\*   appended, sent: whether the run's sheet row and message got through
Fresh(pc) ==
    [pc |-> pc, usdt_balance |-> 0, best_path |-> 0, best_profit |-> 0,
     profits |-> <<>>, missing |-> {},
     attempt |-> 0, trade_amount |-> 0, i |-> 0, current_amount |-> 0,
     error |-> "none", logged |-> "none", sleep_left |-> 0,
     invocations |-> 0, waits |-> <<>>,
     orders |-> NoOrders,
     fail_leg |-> 0, fail_kind |-> "none", fail_logged |-> "none",
     unchecked |-> FALSE, stopped_before |-> FALSE,
     leg |-> 0, amount |-> 0, initial_amount |-> 0, seen |-> {},
     final_amount |-> 0, actual_profit |-> 0,
     fee_amount |-> 0, first_amount |-> 0,
     notified |-> "none", appended |-> "none", sent |-> "none"]

\* The variables check_environment_variables requires.
required_vars ==
    {"BINANCE_API_KEY", "BINANCE_API_SECRET", "GOOGLE_SHEET_ID",
     "GOOGLE_CREDENTIALS_JSON", "TELEGRAM_BOT_TOKEN", "TELEGRAM_CHAT_ID"}

\* A variable of the environment is unset, set to "", or set to a value.
VarStates == {"unset", "empty", "set"}

\* check_environment_variables returns (TRUE) or raises EnvironmentError:
\* `not os.getenv(var)` holds of an unset variable and of an empty one.
check_environment_variables(env) ==
    {var \in required_vars : env[var] \in {"unset", "empty"}} = {}

\* The module's initialization went through: app, client, gsheet and the
\* global flag exist, and the process serves requests.
initialized == check_environment_variables(environ)

\* The streams PriceMonitor.on_open subscribes to.
Symbols == {"BTCUSDT", "ETHUSDT", "BNBUSDT"}

\* PriceMonitor(): no prices, no reconnection yet, and no socket until its
\* thread runs start().  ws is the socket: "none", "open", "waiting" (closed,
\* reconnect() is in its sleep before start()) or "closed" (closed for good).
\* restarts counts the calls of start() that reconnect() has made.
\* seen_at and seen_price are the newest quote on_message was given for
\* each symbol (time 0: none yet).
NewMonitor(started) ==
    [started |-> started,
     ws |-> IF started THEN "open" ELSE "none",
     reconnect_count |-> 0,
     restarts |-> 0,
     last_prices |-> [s \in Symbols |-> 0],
     seen_at |-> [s \in Symbols |-> 0],
     seen_price |-> [s \in Symbols |-> 0]]

\* An answer of a handler: the HTTP status, and what its call of
\* get_account_balance met (reachable, 0 where it made no call).
Answer(call, code, reachable, usdt_balance) ==
    [call |-> call, code |-> code, reachable |-> reachable,
     usdt_balance |-> usdt_balance]

InitRest ==
    /\ arbitrage_is_running = FALSE
    /\ starting = 0
    /\ thread = [t \in Threads |-> Fresh("none")]
    /\ orders_in_window = 0
    /\ ids_this_second = 0
    /\ response = Answer("none", 0, TRUE, 0)
    /\ exchange = [version |-> 0, price |-> [k \in 1..3 |-> GoodQuote.price]]
    /\ price_monitor = NewMonitor(FALSE)

\* The process after its import, with every required variable set.
Init ==
    /\ environ = [var \in required_vars |-> "set"]
    /\ InitRest

\* The process after its import (or what is left of it), in any environment.
InitAnyEnviron ==
    /\ environ \in [required_vars -> VarStates]
    /\ InitRest

FreeSlots(e) == {t \in e.slots : thread[t].pc = "none"}

Min(S) == CHOOSE x \in S : \A y \in S : x <= y

\* A mutant of get_account_balance: a failed call gives the last balance.
get_account_balance_stale(reachable, free) == free

\* get_account_balance: the asset's free balance, 0 when the call fails.
get_account_balance(reachable, free) == IF reachable THEN free ELSE 0

\* A mutant of start_refused: only a negative balance is refused.
start_refused_negative(usdt_balance) == usdt_balance < 0

\* start_bot's test of the initial condition.
start_refused(usdt_balance) == usdt_balance < MIN_TRADE_AMOUNT

\* --------------------------------------------------------- /start, /stop

\* start_bot up to its call of get_account_balance: the flag is tested and
\* found clear.
StartBotCheck(e) ==
    /\ initialized
    /\ ~arbitrage_is_running
    /\ starting < e.handlers
    /\ starting < Cardinality(FreeSlots(e))
    /\ starting' = starting + 1
    /\ UNCHANGED <<arbitrage_is_running, thread, orders_in_window,
                   ids_this_second, outside>>

\* start_bot when the flag is set: it answers 400.
StartBotRejected ==
    /\ initialized
    /\ arbitrage_is_running
    /\ response' = Answer("start", 400, TRUE, 0)
    /\ UNCHANGED <<arbitrage_is_running, starting, thread, orders_in_window,
                   ids_this_second, environ, exchange, price_monitor>>

\* start_bot from the balance test on: answer 400, or set the flag, start
\* the arbitrage_loop thread and a new PriceMonitor's thread, and answer 200.
StartBotCommit(e) ==
    /\ starting > 0
    /\ starting' = starting - 1
    /\ \E reachable \in e.reachable, free \in e.usdt :
         LET usdt_balance == get_account_balance(reachable, free) IN
         IF start_refused(usdt_balance)
           THEN /\ response' = Answer("start", 400, reachable, usdt_balance)
                /\ UNCHANGED <<arbitrage_is_running, thread, price_monitor>>
           ELSE /\ arbitrage_is_running' = TRUE
                /\ thread' = [thread EXCEPT ![Min(FreeSlots(e))] = Fresh("while")]
                /\ price_monitor' = NewMonitor(TRUE)
                /\ response' = Answer("start", 200, reachable, usdt_balance)
    /\ UNCHANGED <<orders_in_window, ids_this_second, environ, exchange>>

\* stop_bot when the flag is set: it clears the flag and answers 200.
StopBot ==
    /\ initialized
    /\ arbitrage_is_running
    /\ arbitrage_is_running' = FALSE
    /\ response' = Answer("stop", 200, TRUE, 0)
    /\ UNCHANGED <<starting, thread, orders_in_window, ids_this_second,
                   environ, exchange, price_monitor>>

\* stop_bot when the flag is clear: it answers 400.
StopBotRejected ==
    /\ initialized
    /\ ~arbitrage_is_running
    /\ response' = Answer("stop", 400, TRUE, 0)
    /\ UNCHANGED <<arbitrage_is_running, starting, thread, orders_in_window,
                   ids_this_second, environ, exchange, price_monitor>>

\* --------------------------------------------------------- arbitrage_loop

\* A mutant of loop_continues: the loop never tests the flag.
loop_continues_forever(running) == TRUE

\* The condition of arbitrage_loop's while.
loop_continues(running) == running

\* while arbitrage_is_running: enter the body, or leave the loop and end.
LoopWhile(t) ==
    /\ thread[t].pc = "while"
    /\ thread' = [thread EXCEPT ![t] =
                     IF loop_continues(arbitrage_is_running)
                       THEN Fresh("check") ELSE Fresh("none")]
    /\ UNCHANGED <<arbitrage_is_running, starting, orders_in_window,
                   ids_this_second, outside>>

\* The risk check: below the floor, sleep 60 and continue.
LoopCheck(t, e) ==
    /\ thread[t].pc = "check"
    /\ \E reachable \in e.reachable, free \in e.usdt :
         LET usdt_balance == get_account_balance(reachable, free) IN
         thread' = [thread EXCEPT ![t] =
             IF risk_denied(usdt_balance)
               THEN [Fresh("sleep") EXCEPT !.sleep_left = RISK_SLEEP]
               ELSE [@ EXCEPT !.usdt_balance = usdt_balance, !.pc = "select"]]
    /\ UNCHANGED <<arbitrage_is_running, starting, orders_in_window,
                   ids_this_second, outside>>

HasMissing(path, legs) ==
    \E k \in 1..NumLegs(path) : legs[k].price = 0 \/ ~legs[k].tradable

\* One iteration of select_best_arbitrage_path's loop over TRADE_PATHS.
EvalPath(t, e) ==
    /\ thread[t].pc = "select"
    /\ LET th == thread[t]
           n == Len(th.profits) + 1
           path == TRADE_PATHS[n]
       IN \E read \in e.eval_sheet, legs \in [1..NumLegs(path) -> e.eval_quotes] :
            LET profit == calculate_profit(path, read, legs)
                better == better_path(profit, th.best_profit)
            IN thread' = [thread EXCEPT ![t] =
                 [@ EXCEPT !.profits = Append(@, profit),
                           !.missing = IF HasMissing(path, legs)
                                         THEN @ \cup {n} ELSE @,
                           !.best_profit = IF better THEN profit ELSE @,
                           !.best_path = IF better THEN n ELSE @,
                           !.pc = IF n = NumPaths THEN "decide" ELSE "select"]]
    /\ UNCHANGED <<arbitrage_is_running, starting, orders_in_window,
                   ids_this_second, outside>>

\* The thread's record once calculate_profit has returned `profit` for
\* path n: select_best_arbitrage_path's comparison, and its next path.
Evaluated(th, n, profit) ==
    LET better == better_path(profit, th.best_profit) IN
    [th EXCEPT !.profits = Append(@, profit),
               !.best_profit = IF better THEN profit ELSE @,
               !.best_path = IF better THEN n ELSE @,
               !.leg = 0, !.amount = 0, !.initial_amount = 0,
               !.pc = IF n = NumPaths THEN "decide" ELSE "select"]

\* calculate_profit begins on the next path: the amount and its limits.
EvalBegin(t, e) ==
    /\ thread[t].pc = "select"
    /\ thread[t].leg = 0
    /\ \E read \in e.eval_sheet :
         LET th == thread[t]
             n == Len(th.profits) + 1
             amount == trade_fraction(get_latest_balance(read))
             initial_amount ==
                 IF amount > MAX_TRADE_AMOUNT THEN MAX_TRADE_AMOUNT ELSE amount
         IN thread' = [thread EXCEPT ![t] =
              IF amount < MIN_TRADE_AMOUNT
                THEN Evaluated([th EXCEPT !.seen = {}], n, 0)
                ELSE [th EXCEPT !.leg = 1, !.amount = initial_amount,
                                !.initial_amount = initial_amount,
                                !.seen = {}]]
    /\ UNCHANGED <<arbitrage_is_running, starting, orders_in_window,
                   ids_this_second, outside>>

\* One iteration of calculate_profit's leg loop, reading the exchange as it
\* is now: the pair is tradable, get_price gives the leg's price and the
\* order book's best ask is that price (no slippage).
EvalLeg(t) ==
    /\ thread[t].pc = "select"
    /\ thread[t].leg >= 1
    /\ LET th == thread[t]
           n == Len(th.profits) + 1
           k == th.leg
           price == exchange.price[k]
           read == [th EXCEPT !.seen = @ \cup {exchange.version}]
           amount == after_fee(times_price(th.amount, price))
       IN thread' = [thread EXCEPT ![t] =
            IF k = NumLegs(TRADE_PATHS[n])
              THEN Evaluated(read, n, amount - th.initial_amount)
            ELSE [read EXCEPT !.leg = k + 1, !.amount = amount]]
    /\ UNCHANGED <<arbitrage_is_running, starting, orders_in_window,
                   ids_this_second, outside>>

\* if best_profit > MIN_PROFIT_THRESHOLD: call execute_trade, else sleep.
Decide(t) ==
    /\ thread[t].pc = "decide"
    /\ thread' = [thread EXCEPT ![t] =
         IF profit_passes(@.best_profit)
           THEN [@ EXCEPT !.pc = "trade", !.profits = <<>>, !.missing = {},
                           !.seen = {},
                           !.stopped_before = ~arbitrage_is_running]
           ELSE [@ EXCEPT !.pc = "end", !.profits = <<>>, !.missing = {},
                           !.seen = {}]]
    /\ UNCHANGED <<arbitrage_is_running, starting, orders_in_window,
                   ids_this_second, outside>>

\* ---------------------------------------------------------- execute_trade

\* The thread's record once the current run has raised `kind` at leg `leg`
\* (0: before the legs): control is in execute_trade's except clause.
Raised(th, kind, leg) ==
    [th EXCEPT !.pc = "except", !.error = kind,
               !.fail_kind = IF @ = "none" THEN kind ELSE @,
               !.fail_leg = IF th.fail_kind = "none" THEN leg ELSE @]

\* A mutant of below_minimum: no amount is too small.
below_minimum_never(trade_amount) == FALSE

\* execute_trade's check of the amount before the trade.
below_minimum(trade_amount) == trade_amount < MIN_TRADE_AMOUNT

\* A run of execute_trade begins: trade_id, trade_amount and the amount
\* checks.  trade_id is "TRADE_" and the clock's whole second, so the ids
\* formed between two ticks are one and the same id.
\* (expected_profit, from calculate_profit, only goes into the sheet row.)
TradeEntry(t, e) ==
    /\ thread[t].pc = "trade"
    /\ \E read \in e.trade_sheet :
         LET amount == trade_fraction(get_latest_balance(read))
             th == [thread[t] EXCEPT !.invocations = @ + 1, !.error = "none",
                                     !.logged = "none", !.i = 0,
                                     !.notified = "none",
                                     !.appended = "none", !.sent = "none",
                                     !.current_amount = 0,
                                     !.fee_amount = 0, !.first_amount = 0,
                                     !.trade_amount = amount]
         IN thread' = [thread EXCEPT ![t] =
              IF below_minimum(amount) THEN Raised(th, "amount", 0)
              ELSE [th EXCEPT !.pc = "bnb",
                              !.trade_amount = IF amount > MAX_TRADE_AMOUNT
                                                 THEN MAX_TRADE_AMOUNT ELSE amount]]
    /\ ids_this_second' = ids_this_second + 1
    /\ UNCHANGED <<arbitrage_is_running, starting, orders_in_window, outside>>

\* The BNB balance check and the fee purchase it may make.
BnbFee(t, e) ==
    /\ thread[t].pc = "bnb"
    /\ \E reachable \in e.reachable, free \in e.bnb,
          tradable \in e.pairs, order \in e.orders :
         LET bnb_balance == get_account_balance(reachable, free)
             buys == bnb_balance < BNB_FEE_FLOOR /\ tradable
             fee_amount == (thread[t].trade_amount * 2) \div 10
             th == [thread[t] EXCEPT !.fee_amount = IF buys THEN fee_amount ELSE @]
             go == [th EXCEPT !.pc = "leg", !.i = 1,
                              !.current_amount = th.trade_amount]
         IN /\ thread' = [thread EXCEPT ![t] =
                 IF buys /\ order.result # "filled"
                   THEN Raised(th, order.result, 0)
                   ELSE go]
            /\ orders_in_window' = IF buys THEN orders_in_window + 1
                                   ELSE orders_in_window
    /\ UNCHANGED <<arbitrage_is_running, starting, ids_this_second, outside>>

\* One iteration of the leg loop: the pair check, the order book, the
\* slippage check (skipped when get_price gives nothing) and the order.
ExecLeg(t, e) ==
    /\ thread[t].pc = "leg"
    /\ \E q \in e.trade_quotes, order \in e.orders :
         LET th == thread[t]
             k == th.i
             path == TRADE_PATHS[th.best_path]
             sent == [th EXCEPT !.orders[k] = @ + 1,
                                !.first_amount = IF k = 1 THEN th.current_amount ELSE @,
                                !.unchecked = @ \/ q.price = 0]
         IN IF ~q.tradable
              THEN /\ thread' = [thread EXCEPT ![t] = Raised(th, "untradable", k)]
                   /\ UNCHANGED orders_in_window
            ELSE IF q.ask = 0
              THEN /\ thread' = [thread EXCEPT ![t] = Raised(th, "transient", k)]
                   /\ UNCHANGED orders_in_window
            ELSE IF q.price # 0 /\ slippage_exceeds(q.ask, q.price)
              THEN /\ thread' = [thread EXCEPT ![t] = Raised(th, "slippage", k)]
                   /\ UNCHANGED orders_in_window
            ELSE IF th.current_amount > 0
              THEN /\ orders_in_window' = orders_in_window + 1
                   /\ thread' = [thread EXCEPT ![t] =
                        IF order.result # "filled"
                          THEN Raised(sent, order.result, k)
                          ELSE [sent EXCEPT
                                  !.current_amount = order.qty,
                                  !.i = k + 1,
                                  !.pc = IF k = NumLegs(path) THEN "finish"
                                         ELSE "leg"]]
            ELSE /\ thread' = [thread EXCEPT ![t] = Raised(th, "zero", k)]
                 /\ UNCHANGED orders_in_window
    /\ UNCHANGED <<arbitrage_is_running, starting, ids_this_second, outside>>

\* A mutant of log_to_google_sheets: a failed append_row raises.
log_to_google_sheets_raising(status, append_ok) ==
    [raised |-> ~append_ok, appended |-> IF append_ok THEN "ok" ELSE "failed"]

\* log_to_google_sheets: the row is appended, or the failure is logged in
\* its except clause; it returns either way.
log_to_google_sheets(status, append_ok) ==
    [raised |-> FALSE, appended |-> IF append_ok THEN "ok" ELSE "failed"]

\* TelegramLoggingHandler.emit: the message is posted, or the failure is
\* printed; it returns either way.
emit(send_ok) == [raised |-> FALSE, sent |-> IF send_ok THEN "ok" ELSE "failed"]

\* A mutant of reported: a failed run is not recorded in the sheet.
reported_unless_failed(status) ==
    [logged |-> IF status = "failure" THEN "none" ELSE status, notified |-> status]

\* What a run that ends hands to its two sinks: both branches of
\* execute_trade call log_to_google_sheets and logging with the outcome.
reported(status) == [logged |-> status, notified |-> status]

\* All legs filled: the final balance, the sheet row, the notification;
\* execute_trade returns to arbitrage_loop.
Finish(t, e) ==
    /\ thread[t].pc = "finish"
    /\ \E reachable \in e.reachable, free \in e.usdt,
          append_ok \in e.appends, send_ok \in e.sends :
         LET final_amount == get_account_balance(reachable, free)
             log == log_to_google_sheets("success", append_ok)
             out == reported("success")
             th == [thread[t] EXCEPT
                      !.final_amount = final_amount,
                      !.fee_amount = 0, !.first_amount = 0,
                      !.actual_profit = final_amount - thread[t].trade_amount,
                      !.logged = out.logged,
                      !.appended = log.appended]
         IN thread' = [thread EXCEPT ![t] =
              IF log.raised
                THEN Raised(th, "sheet", NumLegs(TRADE_PATHS[th.best_path]) + 1)
                ELSE [th EXCEPT !.notified = out.notified,
                                !.sent = emit(send_ok).sent,
                                !.pc = "end"]]
    /\ UNCHANGED <<arbitrage_is_running, starting, orders_in_window,
                   ids_this_second, outside>>

\* execute_trade's except clause (the error message, the failure row, then
\* raise) and what retry_on_error does with the exception: propagate it to
\* arbitrage_loop, which logs it, or sleep and run execute_trade again.
Except(t, e) ==
    /\ thread[t].pc = "except"
    /\ \E append_ok \in e.appends, send_ok \in e.sends :
       LET th == thread[t]
           r == retry_on_error(th.attempt)
           out == reported("failure")
           row == [th EXCEPT !.fee_amount = 0, !.first_amount = 0,
                             !.notified = out.notified,
                             !.sent = emit(send_ok).sent,
                             !.logged = out.logged,
                             !.appended =
                                 log_to_google_sheets("failure", append_ok).appended,
                             !.fail_logged = IF @ = "none" THEN "failure" ELSE @]
       IN thread' = [thread EXCEPT ![t] =
            IF r.raise
              THEN [row EXCEPT !.pc = "end"]
              ELSE [row EXCEPT !.pc = "backoff", !.sleep_left = r.sleep,
                               !.waits = Append(@, r.sleep)]]
    /\ UNCHANGED <<arbitrage_is_running, starting, orders_in_window,
                   ids_this_second, outside>>

\* retry_on_error's sleep is over: the next invocation.
BackoffDone(t) ==
    /\ thread[t].pc = "backoff"
    /\ thread[t].sleep_left = 0
    /\ thread' = [thread EXCEPT ![t] = [@ EXCEPT !.pc = "trade", !.attempt = @ + 1]]
    /\ UNCHANGED <<arbitrage_is_running, starting, orders_in_window,
                   ids_this_second, outside>>

\* The iteration's time.sleep(10) begins; its locals are dead.
LoopSleep(t) ==
    /\ thread[t].pc = "end"
    /\ thread' = [thread EXCEPT ![t] = [Fresh("sleep") EXCEPT !.sleep_left = LOOP_SLEEP]]
    /\ UNCHANGED <<arbitrage_is_running, starting, orders_in_window,
                   ids_this_second, outside>>

\* arbitrage_loop's sleep is over: back to the while test.
SleepDone(t) ==
    /\ thread[t].pc = "sleep"
    /\ thread[t].sleep_left = 0
    /\ thread' = [thread EXCEPT ![t] = [@ EXCEPT !.pc = "while"]]
    /\ UNCHANGED <<arbitrage_is_running, starting, orders_in_window,
                   ids_this_second, outside>>

\* One second passes.
Tick ==
    /\ thread' = [t \in Threads |->
                    [thread[t] EXCEPT !.sleep_left = IF @ > 0 THEN @ - 1 ELSE 0]]
    /\ orders_in_window' = 0
    /\ ids_this_second' = 0
    /\ UNCHANGED <<arbitrage_is_running, starting, outside>>

\* ----------------------------------------------- the exchange's prices

\* Price changes of the exchange that a run considers.
MaxUpdates == 2

\* The prices a ticker may show.
TickerPrices == {PriceScale, GoodQuote.price}

\* The exchange trades: the price of one leg's pair changes.
PriceUpdate ==
    /\ exchange.version < MaxUpdates
    /\ \E k \in 1..3 : \E price \in TickerPrices \ {exchange.price[k]} :
         exchange' = [version |-> exchange.version + 1,
                      price |-> [exchange.price EXCEPT ![k] = price]]
    /\ UNCHANGED <<arbitrage_is_running, starting, thread, orders_in_window,
                   ids_this_second, environ, response, price_monitor>>

\* ------------------------------------------------------ the PriceMonitor

\* The latest trade time a message may carry.
MaxTradeTime == 2

\* A message of a trade stream: the symbol "s", the price "p" and the trade
\* time "T"; or one json.loads or float() cannot read.
Trade(s, p, T) == [ok |-> TRUE, s |-> s, p |-> p, T |-> T]
Unreadable == [ok |-> FALSE, s |-> "BTCUSDT", p |-> 0, T |-> 0]
Messages ==
    {Trade(s, p, T) : s \in Symbols, p \in {100, 101}, T \in 1..MaxTradeTime}
        \cup {Unreadable}

\* PriceMonitor.on_message: the symbol's price is stored (the large-change
\* warning only logs); an unreadable message is logged and changes nothing.
on_message(m) ==
    /\ price_monitor.started
    /\ price_monitor.ws = "open"
    /\ price_monitor' =
         IF ~m.ok THEN price_monitor
         ELSE LET newest == m.T >= price_monitor.seen_at[m.s] IN
              [price_monitor EXCEPT
                 !.last_prices[m.s] = m.p,
                 !.seen_at[m.s] = IF newest THEN m.T ELSE @,
                 !.seen_price[m.s] = IF newest THEN m.p ELSE @]
    /\ UNCHANGED <<arbitrage_is_running, starting, thread, orders_in_window,
                   ids_this_second, environ, response, exchange>>

max_reconnects == 5

\* A mutant of reconnect: the limit itself still reconnects.
reconnect_once_more(reconnect_count) ==
    IF reconnect_count <= max_reconnects
      THEN [again |-> TRUE, reconnect_count |-> reconnect_count + 1]
      ELSE [again |-> FALSE, reconnect_count |-> reconnect_count]

\* PriceMonitor.reconnect's decision: count the attempt and start again,
\* or give up.
reconnect(reconnect_count) ==
    IF reconnect_count < max_reconnects
      THEN [again |-> TRUE, reconnect_count |-> reconnect_count + 1]
      ELSE [again |-> FALSE, reconnect_count |-> reconnect_count]

\* The monitor once its open socket has closed: on_close calls reconnect.
Closed(monitor) ==
    LET r == reconnect(monitor.reconnect_count) IN
    [monitor EXCEPT !.reconnect_count = r.reconnect_count,
                    !.ws = IF r.again THEN "waiting" ELSE "closed"]

\* PriceMonitor.on_close: the connection was closed by the other side or
\* was lost.
on_close ==
    /\ price_monitor.started
    /\ price_monitor.ws = "open"
    /\ price_monitor' = Closed(price_monitor)
    /\ UNCHANGED <<arbitrage_is_running, starting, thread, orders_in_window,
                   ids_this_second, environ, response, exchange>>

\* PriceMonitor.stop: an open socket is closed, which runs on_close.
PriceMonitorStop ==
    /\ price_monitor.started
    /\ price_monitor' = IF price_monitor.ws = "open"
                          THEN Closed(price_monitor) ELSE price_monitor
    /\ UNCHANGED <<arbitrage_is_running, starting, thread, orders_in_window,
                   ids_this_second, environ, response, exchange>>

\* reconnect's sleep is over: start() opens a new socket.
ReconnectStart ==
    /\ price_monitor.ws = "waiting"
    /\ price_monitor' = [price_monitor EXCEPT !.ws = "open", !.restarts = @ + 1]
    /\ UNCHANGED <<arbitrage_is_running, starting, thread, orders_in_window,
                   ids_this_second, environ, response, exchange>>

\* --------------------------------------------------------- specifications

LoopStep(t, e) ==
    \/ LoopWhile(t)
    \/ LoopCheck(t, e)
    \/ EvalPath(t, e)
    \/ Decide(t)
    \/ LoopSleep(t)
    \/ SleepDone(t)

TradeStep(t, e) ==
    \/ TradeEntry(t, e)
    \/ BnbFee(t, e)
    \/ ExecLeg(t, e)
    \/ Finish(t, e)

RetryStep(t, e) ==
    \/ Except(t, e)
    \/ BackoffDone(t)

Step(t, e) == LoopStep(t, e) \/ TradeStep(t, e) \/ RetryStep(t, e)

Control(e) ==
    \/ StartBotCheck(e)
    \/ StartBotCommit(e)
    \/ StopBot
    \/ Tick

\* One loop thread at a time, every answer to the evaluation.
Next == Control(LoopEnv) \/ \E t \in LoopEnv.slots : Step(t, LoopEnv)

Spec == Init /\ [][Next]_vars

\* One loop thread at a time, every answer to execute_trade.
NextTrade == Control(TradeEnv) \/ \E t \in TradeEnv.slots : Step(t, TradeEnv)

SpecTrade == Init /\ [][NextTrade]_vars

\* Several loop threads, an exchange that never fails a call (so that
\* execute_trade raises nothing and retry_on_error has nothing to handle).
NextCalm ==
    Control(CalmEnv) \/ \E t \in CalmEnv.slots : LoopStep(t, CalmEnv) \/ TradeStep(t, CalmEnv)

SpecCalm == Init /\ [][NextCalm]_vars

\* The evaluation leg by leg on an exchange whose prices move; execute_trade
\* fails only on its amount.
PriceEnv ==
    [eval_quotes |-> {GoodQuote},
     eval_sheet |-> {Read(FALSE, 0), Read(TRUE, 5 * USDT)},
     trade_sheet |-> {Read(FALSE, 0), Read(TRUE, 5 * USDT)},
     trade_quotes |-> {GoodQuote},
     orders |-> {Order("filled", USDT)}, pairs |-> {TRUE},
     usdt |-> {100 * USDT}, bnb |-> {0}, slots |-> {1},
     handlers |-> 1, reachable |-> {TRUE}, appends |-> {TRUE}, sends |-> {TRUE}]

EvalStep(t, e) ==
    \/ LoopWhile(t)
    \/ LoopCheck(t, e)
    \/ EvalBegin(t, e)
    \/ EvalLeg(t)
    \/ Decide(t)
    \/ LoopSleep(t)
    \/ SleepDone(t)

NextPrices ==
    \/ Control(PriceEnv)
    \/ PriceUpdate
    \/ \E t \in PriceEnv.slots :
         EvalStep(t, PriceEnv) \/ TradeStep(t, PriceEnv) \/ RetryStep(t, PriceEnv)

SpecPrices == Init /\ [][NextPrices]_vars

\* One loop thread on a calm exchange, and the trade streams' messages in
\* any order.
MonitorEnv == [CalmEnv EXCEPT !.slots = {1}]

NextMonitor ==
    \/ Control(MonitorEnv)
    \/ \E m \in Messages : on_message(m)
    \/ \E t \in MonitorEnv.slots : LoopStep(t, MonitorEnv) \/ TradeStep(t, MonitorEnv)

SpecMonitor == Init /\ [][NextMonitor]_vars

\* One loop thread on a calm exchange, and a monitor whose connection may
\* close at any time, by itself or by stop().
NextReconnect ==
    \/ Control(MonitorEnv)
    \/ on_close
    \/ PriceMonitorStop
    \/ ReconnectStart
    \/ \E t \in MonitorEnv.slots : LoopStep(t, MonitorEnv) \/ TradeStep(t, MonitorEnv)

SpecReconnect == Init /\ [][NextReconnect]_vars

\* execute_trade with a sheet and a Telegram that may fail at every call;
\* a leg fails on its pair or on its order.
SinkEnv ==
    [TradeEnv EXCEPT !.appends = {TRUE, FALSE}, !.sends = {TRUE, FALSE},
                     !.trade_quotes = {GoodQuote, Quote(FALSE, 10000, 10000)},
                     !.orders = {Order("filled", USDT), Order("transient", 0)},
                     !.pairs = {TRUE}, !.bnb = {USDT}]

NextSinks == Control(SinkEnv) \/ \E t \in SinkEnv.slots : Step(t, SinkEnv)

SpecSinks == Init /\ [][NextSinks]_vars

\* Two loop threads on a calm exchange; /start requests served two at a
\* time, while the bot is stopped and no /stop arrives.
StartEnv == [CalmEnv EXCEPT !.slots = {1, 2}, !.handlers = 2]

NextStart ==
    \/ StartBotCheck(StartEnv)
    \/ StartBotCommit(StartEnv)
    \/ StartBotRejected
    \/ Tick
    \/ \E t \in StartEnv.slots : LoopStep(t, StartEnv) \/ TradeStep(t, StartEnv)

SpecStart == Init /\ [][NextStart]_vars

\* Every /start and /stop request, accepted or rejected, in any environment
\* of the process, with an exchange that may be out of reach and an account
\* that may be short of USDT.
ControlEnv ==
    [CalmEnv EXCEPT !.slots = {1, 2}, !.handlers = 2,
                    !.usdt = {5 * USDT, 100 * USDT},
                    !.reachable = {TRUE, FALSE}]

NextControl ==
    \/ Control(ControlEnv)
    \/ StartBotRejected
    \/ StopBotRejected
    \/ \E t \in ControlEnv.slots :
         LoopStep(t, ControlEnv) \/ TradeStep(t, ControlEnv)

SpecControl == InitAnyEnviron /\ [][NextControl]_vars

\* Two loop threads whose execute_trade may fail on its amount and be
\* retried; the threads and the clock run under fair scheduling, the /start
\* and /stop requests arrive as they please.
StopEnv ==
    [CalmEnv EXCEPT !.slots = {1, 2},
                    !.trade_sheet = {Read(FALSE, 0), Read(TRUE, 5 * USDT)}]

NextStop == Control(StopEnv) \/ \E t \in StopEnv.slots : Step(t, StopEnv)

FairSpecStop ==
    /\ Init /\ [][NextStop]_vars
    /\ WF_vars(Tick)
    /\ \A t \in StopEnv.slots : WF_vars(Step(t, StopEnv))

\* execute_trade runs under fair scheduling: a thread that can step does,
\* and time passes.
FairSpecTrade ==
    /\ SpecTrade
    /\ WF_vars(Tick)
    /\ \A t \in TradeEnv.slots : WF_vars(Step(t, TradeEnv))

\* ----------------------------------------------------------------- claims

\* The order-submission budget of the specification's rate limiter: 10
\* admissions in each window of 1000 ms, which is one tick.
ORDER_RATE_CAPACITY == 10

\* A TradeAttempt is in progress in thread t: execute_trade has been called
\* and has neither returned nor finally raised.
InFlight(t) ==
    thread[t].pc \in {"trade", "bnb", "leg", "finish", "except", "backoff"}

\* The attempt of the thread's current iteration is over.
AttemptOver(t) == thread[t].pc = "end" /\ thread[t].invocations > 0

BusinessRejections == {"untradable", "rejected", "zero"}

Max(S) == CHOOSE x \in S : \A y \in S : x >= y

\* C1: at any time at most one TradeAttempt is in progress system-wide,
\* under every interleaving of start(), stop() and loop steps.
C1_SingleFlight == Cardinality({t \in Threads : InFlight(t)}) <= 1

\* C2: a business rejection of a leg (pair not tradable, order rejected,
\* zero amount) is terminal for the attempt: execute_trade is not run again
\* after it, and a rejected leg is not submitted a second time.
C2_BusinessRejectionTerminal ==
    \A t \in Threads :
        /\ thread[t].pc = "backoff" /\ thread[t].i >= 1
               => thread[t].error \notin BusinessRejections
        /\ \A k \in 1..3 :
             thread[t].fail_kind = "rejected" /\ thread[t].fail_leg = k
                 => thread[t].orders[k] <= 1

\* C3: when leg k > 1 fails after legs 1..k-1 filled, the later legs are
\* never submitted, each earlier leg is submitted exactly once for the
\* attempt, and the attempt is recorded as a partial failure.
C3_PartialFailure ==
    \A t \in Threads :
        LET k == thread[t].fail_leg IN
        k > 1 =>
            /\ \A j \in 1..3 : j < k => thread[t].orders[j] = 1
            /\ \A j \in 1..3 : j > k => thread[t].orders[j] = 0
            /\ thread[t].fail_logged \in {"none", "partial_failure"}

\* C4: the order submissions within one window never exceed the capacity.
C4_OrderRateBounded == orders_in_window <= ORDER_RATE_CAPACITY

\* C5: execute_trade is entered only in an iteration whose risk check
\* passed (USDT balance >= MIN_TRADE_AMOUNT) and whose selected path has a
\* profit > MIN_PROFIT_THRESHOLD; otherwise the iteration submits no order.
C5_TradeOnlyAfterGates ==
    \A t \in Threads :
        (InFlight(t) \/ thread[t].invocations > 0
                     \/ \E k \in 1..3 : thread[t].orders[k] > 0)
            => /\ thread[t].usdt_balance >= MIN_TRADE_AMOUNT
               /\ thread[t].best_profit > MIN_PROFIT_THRESHOLD
               /\ thread[t].best_path \in 1..NumPaths

\* C5's case: an order has been submitted in an iteration.
C5_Witness ==
    \E t \in Threads : thread[t].pc = "leg" /\ thread[t].orders[1] = 1

\* C6: a leg's order is submitted only after its slippage was checked and
\* found within the tolerance; once a leg exceeds the tolerance, that leg
\* and the remaining legs are not submitted.
C6_SlippageCheckedBeforeOrder ==
    \A t \in Threads :
        /\ ~thread[t].unchecked
        /\ \A k \in 1..3 :
             thread[t].fail_kind = "slippage" /\ thread[t].fail_leg = k
                 => \A j \in k..3 : thread[t].orders[j] = 0

\* C7: once stop() has cleared the flag, no loop thread begins a new
\* execute_trade.
C7_StopHonoured == \A t \in Threads : ~thread[t].stopped_before

\* C8 (state part): execute_trade is invoked at most RETRY_TIMES times per
\* call, the waits between consecutive invocations are 2^0, 2^1, ..., a
\* successful invocation is the last one, and the failure reaches the
\* caller only when the last allowed invocation failed.
C8_RetryInvariant ==
    \A t \in Threads :
        LET th == thread[t] IN
        /\ th.invocations <= RETRY_TIMES
        /\ \A k \in 1..Len(th.waits) : th.waits[k] = Pow2(k - 1)
        /\ Len(th.waits) = IF th.pc \in {"backoff", "trade"} THEN th.invocations
                           ELSE IF th.invocations > 0 THEN th.invocations - 1
                           ELSE 0
        /\ th.pc = "backoff" => th.sleep_left <= th.waits[Len(th.waits)]
        /\ AttemptOver(t) =>
             \/ th.error = "none" /\ th.logged = "success"
             \/ th.error # "none" /\ th.invocations = RETRY_TIMES

\* C8: the retry discipline above, and every call of execute_trade under
\* retry_on_error terminates.
C8_RetryBounded ==
    /\ []C8_RetryInvariant
    /\ \A t \in TradeEnv.slots : InFlight(t) ~> ~InFlight(t)

\* C8's case: three invocations failed, with waits of 1 and 2 seconds, and
\* the failure reached arbitrage_loop.
C8_Witness ==
    \E t \in Threads :
        /\ AttemptOver(t)
        /\ thread[t].invocations = RETRY_TIMES
        /\ thread[t].waits = <<1, 2>>
        /\ thread[t].error = "transient"

\* C9: a path with a missing price or pair evaluates to profit 0 without
\* raising, the remaining paths are still evaluated, and the path is never
\* the one selected.
C9_MissingPriceInfeasible ==
    \A t \in Threads :
        LET th == thread[t] IN
        /\ \A n \in th.missing :
             n <= Len(th.profits) /\ th.profits[n] = 0 /\ th.best_path # n
        /\ th.pc = "decide" => Len(th.profits) = NumPaths

\* C9's case: the first path lacked a price and a later path was selected.
C9_Witness ==
    \E t \in Threads :
        /\ thread[t].pc = "decide"
        /\ 1 \in thread[t].missing
        /\ thread[t].best_path = 2

\* C10: select_best_arbitrage_path returns the path of greatest profit, the
\* earliest declared among equals, and no path when no profit is positive.
C10_BestPathSelected ==
    \A t \in Threads :
        thread[t].pc = "decide" =>
            LET P == thread[t].profits
                m == Max({P[n] : n \in 1..NumPaths})
            IN IF m > 0
                 THEN /\ thread[t].best_profit = m
                      /\ thread[t].best_path = Min({n \in 1..NumPaths : P[n] = m})
                 ELSE thread[t].best_path = 0 /\ thread[t].best_profit = 0

\* C10's case: the two last paths tie above the first; the earlier wins.
C10_Witness ==
    \E t \in Threads :
        LET P == thread[t].profits IN
        /\ thread[t].pc = "decide"
        /\ P[2] = P[3] /\ P[2] > P[1] /\ P[1] > 0
        /\ thread[t].best_path = 2

\* C11: no two TradeAttempts ever carry the same id.  A trade_id is the
\* clock's whole second, so two ids formed between two ticks are equal:
\* at most one id may be formed in any one second.
C11_UniqueTradeIds == ids_this_second <= 1

\* C12: the leg prices one evaluation of a path uses come from one
\* point-in-time view: the evaluation reads no two versions of the prices.
C12_SingleView == \A t \in Threads : Cardinality(thread[t].seen) <= 1

\* C13: the stored price of a pair is that of the newest quote observed
\* for it: a quote older than the stored one does not replace it.
C13_NewestQuoteKept ==
    \A s \in Symbols :
        price_monitor.last_prices[s] = price_monitor.seen_price[s]

\* C14: when all legs of an attempt filled, the recorded actual profit is
\* the starting asset's balance after the attempt minus its balance before
\* (the loop's reading of it ahead of the attempt).
C14_ProfitIsBalanceDelta ==
    \A t \in Threads :
        AttemptOver(t) /\ thread[t].error = "none"
            => thread[t].actual_profit
                   = thread[t].final_amount - thread[t].usdt_balance

\* A run of execute_trade in thread t has filled all its legs.
LegsFilled(t) ==
    thread[t].best_path \in 1..NumPaths
        /\ thread[t].i = NumLegs(TRADE_PATHS[thread[t].best_path]) + 1

\* C15: a failure of the sheet or of Telegram after all legs filled leaves
\* the outcome a success: execute_trade has returned without an error, the
\* status it recorded is the success, and it is not run again.
C15_SinkFailureKeepsOutcome ==
    \A t \in Threads :
        LegsFilled(t) /\ "failed" \in {thread[t].appended, thread[t].sent}
            => /\ thread[t].pc = "end"
               /\ thread[t].error = "none"
               /\ thread[t].logged = "success"

\* C15's case: all legs filled, then both the append and the post failed.
C15_Witness ==
    \E t \in Threads :
        /\ LegsFilled(t) /\ AttemptOver(t)
        /\ thread[t].appended = "failed" /\ thread[t].sent = "failed"

\* C16: a run of execute_trade that has ended, filled or failed, has been
\* handed to the sheet and to the notification before the loop goes on.
C16_TerminalReported ==
    \A t \in Threads :
        (AttemptOver(t) \/ thread[t].pc = "backoff")
            => /\ thread[t].logged # "none"
               /\ thread[t].notified = thread[t].logged
               /\ thread[t].logged = "success" <=> thread[t].error = "none"

\* C16's case: an attempt failed at its second leg and was reported.
C16_Witness ==
    \E t \in Threads :
        /\ AttemptOver(t)
        /\ thread[t].fail_leg = 2
        /\ thread[t].logged = "failure" /\ thread[t].notified = "failure"

\* The loop threads that are alive.
Alive == {t \in Threads : thread[t].pc # "none"}

\* C17 (the environment): with a required variable unset or empty the
\* process never has its flag set and never has a loop thread or a monitor.
C17_NoConfigNoBot ==
    (\E var \in required_vars : environ[var] # "set")
        => /\ ~arbitrage_is_running
           /\ Alive = {}
           /\ ~price_monitor.started
           /\ starting = 0

\* C17 (the exchange): a start() that cannot reach the exchange answers an
\* error, sets no flag and spawns nothing.
C17_UnreachableNoStart ==
    [][StartBotCommit(ControlEnv) /\ ~response'.reachable
           => /\ response'.code = 400
              /\ UNCHANGED <<arbitrage_is_running, thread, price_monitor>>]_vars

\* C17: missing configuration, or an exchange out of reach at start, and
\* the bot refuses to start.
C17_RefusesToStart == []C17_NoConfigNoBot /\ C17_UnreachableNoStart

\* C17's case: a start() met an unreachable exchange and answered 400.
C17_Witness ==
    /\ response.call = "start" /\ ~response.reachable /\ response.code = 400
    /\ ~arbitrage_is_running /\ Alive = {}

\* C18: of the start() calls issued while the bot is stopped at most one
\* spawns an arbitrage_loop thread (no stop() arrives, so no thread ends).
C18_SingleStart == Cardinality(Alive) <= 1

\* C19: a rejected control call (start() with the flag set, start() with a
\* USDT balance below MIN_TRADE_AMOUNT, stop() with the flag clear) answers
\* an error, leaves the flag as it is and spawns nothing.
C19_RejectedCallNoEffect ==
    [][(\/ StartBotRejected
        \/ StopBotRejected
        \/ StartBotCommit(ControlEnv) /\ response'.usdt_balance < MIN_TRADE_AMOUNT)
           => /\ response'.code = 400
              /\ UNCHANGED <<arbitrage_is_running, thread, price_monitor>>]_vars

\* C19's case: a start() was refused for its balance while a loop thread
\* of an earlier start was alive.
C19_Witness ==
    /\ response.call = "start" /\ response.code = 400
    /\ response.reachable /\ response.usdt_balance < MIN_TRADE_AMOUNT
    /\ Alive # {}

\* C20 (a step): a thread that tests the flag and finds it clear leaves
\* the loop and starts no other iteration.
C20_NoNewIteration ==
    [][\A t \in Threads :
          LoopWhile(t) /\ ~arbitrage_is_running => thread'[t].pc = "none"]_vars

\* C20: after a stop() that no start() follows, every loop thread ends:
\* if the flag stays clear from some time on, each thread is gone for good.
C20_StoppedThreadsExit ==
    /\ C20_NoNewIteration
    /\ \A t \in StopEnv.slots :
         <>[](~arbitrage_is_running) => <>[](thread[t].pc = "none")

\* C20's case: a stop() was answered 200 and both threads have ended.
C20_Witness ==
    /\ response.call = "stop" /\ response.code = 200
    /\ ~arbitrage_is_running /\ Alive = {}
    /\ price_monitor.started

\* C21: the first leg's order of a run of execute_trade asks for at least
\* MIN_TRADE_AMOUNT and at most MAX_TRADE_AMOUNT, whatever the recorded
\* balance; a run whose trade amount is below MIN_TRADE_AMOUNT submits no
\* order, neither the BNB fee purchase nor a leg.
C21_FirstLegWithinLimits ==
    \A t \in Threads :
        LET th == thread[t] IN
        /\ th.first_amount # 0
               => /\ th.first_amount >= MIN_TRADE_AMOUNT
                  /\ th.first_amount <= MAX_TRADE_AMOUNT
        /\ th.invocations > 0 /\ th.trade_amount < MIN_TRADE_AMOUNT
               => /\ th.fee_amount = 0 /\ th.first_amount = 0
                  /\ \A k \in 1..3 : th.orders[k] = 0 \/ th.invocations > 1
                  /\ th.pc \in {"except", "backoff", "trade", "end"}

\* C21's case: the recorded balance put 80% of it above the maximum, and
\* the first leg's order was sent for MAX_TRADE_AMOUNT after a fee purchase.
C21_Witness ==
    \E t \in Threads :
        /\ thread[t].pc = "leg" /\ thread[t].i = 2
        /\ thread[t].first_amount = MAX_TRADE_AMOUNT
        /\ thread[t].fee_amount > 0

\* C22 (a state): a monitor's reconnect_count never exceeds max_reconnects,
\* it has reconnected as often as it counted, and it is closed for good
\* only with the count at the limit.
C22_ReconnectInvariant ==
    /\ price_monitor.reconnect_count <= max_reconnects
    /\ price_monitor.restarts <= price_monitor.reconnect_count
    /\ price_monitor.reconnect_count - price_monitor.restarts
           = IF price_monitor.ws = "waiting" THEN 1 ELSE 0
    /\ price_monitor.ws = "closed" => price_monitor.reconnect_count = max_reconnects

\* C22 (a step): but for start_bot making a new monitor, the count is never
\* reset, a close at the limit leaves the monitor closed, and a closed
\* monitor stays closed.
C22_NeverReset ==
    [][\/ StartBotCommit(MonitorEnv)
       \/ /\ price_monitor'.reconnect_count >= price_monitor.reconnect_count
          /\ price_monitor.ws = "closed" => price_monitor'.ws = "closed"
          /\ (on_close \/ PriceMonitorStop)
               /\ price_monitor.ws = "open"
               /\ price_monitor.reconnect_count = max_reconnects
                 => price_monitor'.ws = "closed"]_vars

\* C22: over a monitor's lifetime at most max_reconnects reconnections are
\* made, whatever closes its connection.
C22_ReconnectsBounded == []C22_ReconnectInvariant /\ C22_NeverReset

\* C22's case: the fifth reconnection was made and a further close left
\* the monitor closed.
C22_Witness ==
    /\ price_monitor.ws = "closed"
    /\ price_monitor.reconnect_count = max_reconnects
    /\ price_monitor.restarts = max_reconnects

====
